---- MODULE Spec2Model ----
(***************************************************************************)
(* Model of the order notifier (paidabai/vin): the two notifier scripts    *)
(* (period 3 and period 2), the /api/order/summary normalizer, the e-mail  *)
(* body builder and the page's summary builder.                            *)
(*                                                                         *)
(* JavaScript values are tagged records.  A string is a sequence of        *)
(* characters, one element per character; a character outside ASCII is     *)
(* written by an ASCII name ("yen" for U+00A5, "shi" for U+65F6, ...).     *)
(* A finite number is a decimal  (-1)^neg * m * 10^(-e), kept normalised   *)
(* (no trailing zero in m when e > 0), so that Number(), String() and      *)
(* toLocaleString() are computed digit by digit.                           *)
(***************************************************************************)
EXTENDS Integers, Sequences, FiniteSets, TLC

VARIABLES
  amount, formatted,          \* formatCurrency: argument, result
  candidates, picked,         \* pick: argument list, result
  raw, summary, summaryText, \* an order record, its summary (route.ts), its e-mail body
  config, surface, out,       \* a configuration object, the builder it is handed to
                              \* (route.ts or page.tsx), the summary per form supplied
  period,                     \* which notifier script runs: 3 or 2 (0: none)
  env,                        \* process.env of the run
  pc,                         \* where the run stands
  response,                   \* what the order interface answered to fetch
  payload,                    \* what fetchOrderJson returned
  calls,                      \* how often fetch and transporter.sendMail were called
  clock,                      \* what getBeijingHour read, if it was called
  mail,                       \* the call of sendEmail and what became of it
  exitCode,                   \* the exit code of the process
  runs,                       \* the scheduled runs that have ended, oldest first
  order,                      \* the body the order interface holds for the web surfaces
  api,                        \* the response of GET /api/order/summary
  page                        \* what the page (Home) shows

currencyVars == <<amount, formatted, candidates, picked>>
summaryVars == <<raw, summary, summaryText>>
configVars == <<config, surface, out>>
notifierVars == <<period, env, pc, response, payload, calls, clock, mail, exitCode, runs>>
surfaceVars == <<order, api, page>>
vars == <<currencyVars, summaryVars, configVars, notifierVars, surfaceVars>>

(***************************************************************************)
(* Bounds of the model.                                                    *)
(***************************************************************************)
MaxAmountLen == 4
MaxCandidates == 3
MaxFields == 2
MaxRunLen == 2
MaxRuns == 5

(***************************************************************************)
(* JavaScript values.                                                      *)
(***************************************************************************)
Undefined == [t |-> "undefined"]
Null == [t |-> "null"]
Str(s) == [t |-> "string", s |-> s]
Bool(b) == [t |-> "boolean", b |-> b]
NaN == [t |-> "number", k |-> "NaN"]
Infinity(neg) == [t |-> "number", k |-> "Infinity", neg |-> neg]
Finite(neg, m, e) == [t |-> "number", k |-> "finite", neg |-> neg, m |-> m, e |-> e]
Obj(o) == [t |-> "object", o |-> o]
\* No value: the state of a result before the operation has run.
None == [t |-> "none"]
\* The outcome of an operation that threw.
Threw == [t |-> "threw"]

Placeholder == Str(<<"-", "-">>)
EmptyString == Str(<<>>)

RECURSIVE Pow10(_)
Pow10(k) == IF k = 0 THEN 1 ELSE 10 * Pow10(k - 1)

\* The decimal m * 10^(-e) without trailing zeros in its fraction.
RECURSIVE Normalise(_, _, _)
Normalise(neg, m, e) ==
  IF e > 0 /\ m % 10 = 0 THEN Normalise(neg, m \div 10, e - 1) ELSE Finite(neg, m, e)

IntNum(n) == IF n < 0 THEN Finite(TRUE, -n, 0) ELSE Finite(FALSE, n, 0)

IsString(v) == v.t = "string"
IsNumber(v) == v.t = "number"
IsNaN(v) == v.t = "number" /\ v.k = "NaN"
IsFinite(v) == v.t = "number" /\ v.k = "finite"
IsZero(v) == IsFinite(v) /\ v.m = 0

\* ToBoolean: undefined, null, "", +0, -0, NaN and false are falsy.
Truthy(v) ==
  CASE v.t = "undefined" -> FALSE
    [] v.t = "null" -> FALSE
    [] v.t = "string" -> v.s # <<>>
    [] v.t = "boolean" -> v.b
    [] v.t = "number" -> ~IsNaN(v) /\ ~IsZero(v)
    [] OTHER -> TRUE

\* a || b,  a ?? b
OrElse(a, b) == IF Truthy(a) THEN a ELSE b
Coalesce(a, b) == IF a.t \in {"undefined", "null"} THEN b ELSE a

\* v?.k : undefined on undefined and null, and on every value without the key.
Get(v, k) == IF v.t = "object" /\ k \in DOMAIN v.o THEN v.o[k] ELSE Undefined

(***************************************************************************)
(* Digits and numeric conversions.                                         *)
(***************************************************************************)
Digits == <<"0", "1", "2", "3", "4", "5", "6", "7", "8", "9">>
DigitChars == {Digits[i] : i \in 1..10}
DigitVal(c) == CHOOSE d \in 0..9 : Digits[d + 1] = c
DigitChar(d) == Digits[d + 1]

RECURSIVE DigitsValue(_)
DigitsValue(s) ==
  IF s = <<>> THEN 0
  ELSE 10 * DigitsValue(SubSeq(s, 1, Len(s) - 1)) + DigitVal(s[Len(s)])

RECURSIVE IntToChars(_)
IntToChars(n) ==
  IF n < 10 THEN <<DigitChar(n)>> ELSE IntToChars(n \div 10) \o <<DigitChar(n % 10)>>

\* n written with at least w digits (leading zeros).
RECURSIVE PadLeft(_, _)
PadLeft(s, w) == IF Len(s) >= w THEN s ELSE PadLeft(<<"0">> \o s, w)

WhiteSpace == {" "}
RECURSIVE TrimStart(_)
TrimStart(s) == IF s # <<>> /\ s[1] \in WhiteSpace THEN TrimStart(Tail(s)) ELSE s
RECURSIVE TrimEnd(_)
TrimEnd(s) ==
  IF s # <<>> /\ s[Len(s)] \in WhiteSpace THEN TrimEnd(SubSeq(s, 1, Len(s) - 1)) ELSE s
Trim(s) == TrimEnd(TrimStart(s))

InfinityChars == <<"I", "n", "f", "i", "n", "i", "t", "y">>

\* StrUnsignedDecimalLiteral without exponent: digits, digits. , digits.digits , .digits
UnsignedDecimal(s) ==
  LET dots == {i \in 1..Len(s) : s[i] = "."}
      wellFormed == /\ Cardinality(dots) <= 1
                    /\ \A i \in 1..Len(s) : s[i] \in DigitChars \cup {"."}
                    /\ \E i \in 1..Len(s) : s[i] \in DigitChars
  IN IF ~wellFormed THEN NaN
     ELSE IF dots = {} THEN Finite(FALSE, DigitsValue(s), 0)
     ELSE LET d == CHOOSE i \in dots : TRUE
              ip == SubSeq(s, 1, d - 1)
              fp == SubSeq(s, d + 1, Len(s))
          IN Normalise(FALSE, DigitsValue(ip \o fp), Len(fp))

Negate(n) ==
  IF IsNaN(n) THEN n
  ELSE IF n.k = "Infinity" THEN Infinity(~n.neg)
  ELSE Finite(~n.neg, n.m, n.e)

\* StringToNumber: the string trimmed; "" is +0; an optional sign, then Infinity
\* or a decimal literal; anything else is NaN.  (Exponents, hex, octal and
\* binary literals need characters the model's alphabets do not hold.)
StringToNumber(s) ==
  LET b == Trim(s)
      signed == b # <<>> /\ b[1] \in {"+", "-"}
      u == IF signed THEN Tail(b) ELSE b
      mag == IF u = InfinityChars THEN Infinity(FALSE) ELSE UnsignedDecimal(u)
  IN IF b = <<>> THEN Finite(FALSE, 0, 0)
     ELSE IF signed /\ b[1] = "-" THEN Negate(mag)
     ELSE mag

\* Number(v)
ToNumber(v) ==
  CASE v.t = "undefined" -> NaN
    [] v.t = "null" -> Finite(FALSE, 0, 0)
    [] v.t = "boolean" -> Finite(FALSE, IF v.b THEN 1 ELSE 0, 0)
    [] v.t = "number" -> v
    [] v.t = "string" -> StringToNumber(v.s)
    [] OTHER -> NaN     \* a plain object: Number("[object Object]")

\* Number::toString for the decimals of the model (1e-6 <= |x| < 1e21).
NumberToString(n) ==
  IF IsNaN(n) THEN <<"N", "a", "N">>
  ELSE IF n.k = "Infinity" THEN (IF n.neg THEN <<"-">> ELSE <<>>) \o InfinityChars
  ELSE IF n.m = 0 THEN <<"0">>
  ELSE LET p == Pow10(n.e)
           ip == IntToChars(n.m \div p)
           fp == IF n.e = 0 THEN <<>> ELSE <<".">> \o PadLeft(IntToChars(n.m % p), n.e)
       IN (IF n.neg THEN <<"-">> ELSE <<>>) \o ip \o fp

ObjectObject ==
  <<"[", "o", "b", "j", "e", "c", "t", " ", "O", "b", "j", "e", "c", "t", "]">>

\* String(v), also the conversion of `${v}`.
JsString(v) ==
  CASE v.t = "undefined" -> <<"u", "n", "d", "e", "f", "i", "n", "e", "d">>
    [] v.t = "null" -> <<"n", "u", "l", "l">>
    [] v.t = "boolean" -> IF v.b THEN <<"t", "r", "u", "e">> ELSE <<"f", "a", "l", "s", "e">>
    [] v.t = "number" -> NumberToString(v)
    [] v.t = "string" -> v.s
    [] OTHER -> ObjectObject

\* Digits grouped in threes from the right with ",".
RECURSIVE Group(_)
Group(s) ==
  IF Len(s) <= 3 THEN s
  ELSE Group(SubSeq(s, 1, Len(s) - 3)) \o <<",">> \o SubSeq(s, Len(s) - 2, Len(s))

\* |n| in hundredths, rounded half away from zero (ECMA-402 halfExpand).
Hundredths(n) ==
  IF n.e <= 2 THEN n.m * Pow10(2 - n.e)
  ELSE (n.m + 5 * Pow10(n.e - 3)) \div Pow10(n.e - 2)

\* n.toLocaleString('zh-CN', { minimumFractionDigits: 2, maximumFractionDigits: 2 })
ToLocaleString2(n) ==
  IF IsNaN(n) THEN <<"N", "a", "N">>
  ELSE IF n.k = "Infinity" THEN (IF n.neg THEN <<"-">> ELSE <<>>) \o <<"infinity_sign">>
  ELSE LET h == Hundredths(n)
       IN (IF n.neg THEN <<"-">> ELSE <<>>)
            \o Group(IntToChars(h \div 100)) \o <<".">> \o PadLeft(IntToChars(h % 100), 2)

(***************************************************************************)
(* formatCurrency and pick (route.ts; the notifier scripts hold the same  *)
(* two functions).                                                         *)
(***************************************************************************)
\* A plausible slip: an unparsable amount shown as the placeholder.
formatCurrencyNoPassThrough(a) ==
  IF a = Null \/ a = Undefined \/ a = EmptyString THEN Placeholder
  ELSE LET n == ToNumber(a)
       IN IF IsNaN(n) THEN Placeholder
          ELSE Str(<<"yen">> \o ToLocaleString2(n))

formatCurrency(a) ==
  IF a = Null \/ a = Undefined \/ a = EmptyString THEN Placeholder
  ELSE LET n == ToNumber(a)
       IN IF IsNaN(n) THEN Str(JsString(a))
          ELSE Str(<<"yen">> \o ToLocaleString2(n))

\* A plausible slip: `if (v)` in place of the three comparisons.
RECURSIVE pickTruthy(_)
pickTruthy(cs) ==
  IF cs = <<>> THEN Placeholder
  ELSE IF Truthy(Head(cs)) THEN Head(cs)
  ELSE pickTruthy(Tail(cs))

RECURSIVE pick(_)
pick(cs) ==
  IF cs = <<>> THEN Placeholder
  ELSE IF Head(cs) # Null /\ Head(cs) # Undefined /\ Head(cs) # EmptyString THEN Head(cs)
  ELSE pick(Tail(cs))

\* The notifier scripts' copy of pick (next.config.ts).
RECURSIVE pickNotifier(_)
pickNotifier(cs) ==
  IF cs = <<>> THEN Placeholder
  ELSE IF Head(cs) # Null /\ Head(cs) # Undefined /\ Head(cs) # EmptyString THEN Head(cs)
  ELSE pickNotifier(Tail(cs))

\* The notifier scripts' copy of formatCurrency (next.config.ts).
formatCurrencyNotifier(a) ==
  IF a = Null \/ a = Undefined \/ a = EmptyString THEN Placeholder
  ELSE LET n == ToNumber(a)
       IN IF IsNaN(n) THEN Str(JsString(a))
          ELSE Str(<<"yen">> \o ToLocaleString2(n))

\* The variables of the other specifications at rest.
NoCurrency == amount = None /\ formatted = None /\ candidates = <<>> /\ picked = None
NoSummary == raw = None /\ summary = None /\ summaryText = None
NoConfig == config = None /\ surface = None /\ out = None
NoSurfaces == order = None /\ api = None /\ page = None
NoCalls == [fetch |-> 0, sendMail |-> 0]
NoNotifier ==
  /\ period = 0 /\ env = None /\ pc = "idle" /\ response = None /\ payload = None
  /\ calls = NoCalls /\ clock = None /\ mail = None /\ exitCode = None /\ runs = <<>>

StringsUpTo(chars, n) == UNION {[1..k -> chars] : k \in 0..n}

(***************************************************************************)
(* SpecPick: pick applied to every candidate list of bounded length.       *)
(***************************************************************************)
PickValues ==
  {Undefined, Null, EmptyString, Str(<<"A">>), Str(<<"B">>), Str(<<" ">>),
   IntNum(0), IntNum(7), NaN, Bool(FALSE), Obj(<<>>)}

InitPick ==
  /\ candidates \in UNION {[1..k -> PickValues] : k \in 0..MaxCandidates}
  /\ picked = None
  /\ amount = None
  /\ formatted = None
  /\ NoSummary /\ NoConfig /\ NoNotifier /\ NoSurfaces

PickRoute ==
  /\ picked = None
  /\ picked' = [by |-> "route", v |-> pick(candidates)]
  /\ UNCHANGED <<candidates, amount, formatted, summaryVars, configVars, notifierVars, surfaceVars>>

PickNotifier ==
  /\ picked = None
  /\ picked' = [by |-> "notifier", v |-> pickNotifier(candidates)]
  /\ UNCHANGED <<candidates, amount, formatted, summaryVars, configVars, notifierVars, surfaceVars>>

NextPick == PickRoute \/ PickNotifier

SpecPick == InitPick /\ [][NextPick]_vars

Qualifies(v) == v.t # "null" /\ v.t # "undefined" /\ ~(v.t = "string" /\ Len(v.s) = 0)
QualifyingAt == {i \in 1..Len(candidates) : Qualifies(candidates[i])}

\* C8: pick returns the first candidate, in argument order, that is not null,
\* not undefined and not the empty string, unchanged, whatever the later
\* candidates are; it returns "--" when no candidate qualifies; it always
\* returns (a result is a value of the model, never an exception).
C8_PickFirstNonEmpty ==
  picked # None =>
    IF QualifyingAt = {} THEN picked.v = Str(<<"-", "-">>)
    ELSE \E i \in QualifyingAt :
           /\ \A j \in QualifyingAt : i <= j
           /\ picked.v = candidates[i]

\* A falsy but qualifying candidate, 0, has been returned although the next
\* candidate is a non-empty string.
C8_Witness ==
  /\ picked # None
  /\ Len(candidates) = 3
  /\ candidates[1] = Null
  /\ candidates[2] = IntNum(0)
  /\ candidates[3] = Str(<<"A">>)
  /\ picked.v = IntNum(0)

(***************************************************************************)
(* SpecCurrency: formatCurrency applied to every amount of the bounded     *)
(* input set, directly and as formatCurrency(pick(retailPrice, price)).    *)
(* The digit 5 is left out of the alphabet and of the third decimal of the *)
(* typed numbers: rounding to two decimals then never meets a tie, where   *)
(* the binary value of the double, not its decimal text, would decide.     *)
(***************************************************************************)
AmountChars == {"0", "1", "9", "-", ".", "a", " "}

NumberInputs ==
  {IntNum(0), Finite(TRUE, 0, 0), IntNum(7), IntNum(199999), IntNum(1000000),
   Finite(FALSE, 12345, 1), Finite(FALSE, 999999, 3), Finite(TRUE, 1234001, 3),
   Finite(FALSE, 1, 3), Finite(TRUE, 9, 3), NaN, Infinity(FALSE), Infinity(TRUE)}

AmountInputs ==
  {Undefined, Null, Bool(TRUE), Bool(FALSE), Obj(<<>>), Str(InfinityChars)}
    \cup NumberInputs
    \cup {Str(s) : s \in StringsUpTo(AmountChars, MaxAmountLen)}

PriceInputs ==
  {Undefined, Null, EmptyString, IntNum(199999), Str(<<"1", "9">>), Str(<<"a">>)}

InitCurrency ==
  /\ \/ amount \in AmountInputs /\ candidates = <<>>
     \/ amount = None /\ candidates \in [1..2 -> PriceInputs]
  /\ formatted = None
  /\ picked = None
  /\ NoSummary /\ NoConfig /\ NoNotifier /\ NoSurfaces

\* formatCurrency(amount), route.ts
FormatRoute ==
  /\ amount # None /\ formatted = None
  /\ formatted' = [by |-> "route", v |-> formatCurrency(amount)]
  /\ UNCHANGED <<amount, candidates, picked, summaryVars, configVars, notifierVars, surfaceVars>>

\* formatCurrency(amount), next.config.ts
FormatNotifier ==
  /\ amount # None /\ formatted = None
  /\ formatted' = [by |-> "notifier", v |-> formatCurrencyNotifier(amount)]
  /\ UNCHANGED <<amount, candidates, picked, summaryVars, configVars, notifierVars, surfaceVars>>

\* retailPrice: formatCurrency(pick(data?.retailPrice, data?.price)), route.ts:59
FormatRetailPrice ==
  /\ amount = None /\ formatted = None
  /\ picked' = [by |-> "route", v |-> pick(candidates)]
  /\ formatted' = [by |-> "route", v |-> formatCurrency(picked'.v)]
  /\ UNCHANGED <<amount, candidates, summaryVars, configVars, notifierVars, surfaceVars>>

NextCurrency == FormatRoute \/ FormatNotifier \/ FormatRetailPrice

SpecCurrency == InitCurrency /\ [][NextCurrency]_vars

\* The text after the currency sign of a finite amount n: an optional "-", the
\* integer digits in groups of three separated by ",", a ".", and exactly two
\* decimals; its value is n to within half a hundredth, and it is signed as n.
RECURSIVE NoCommas(_)
NoCommas(s) ==
  IF s = <<>> THEN <<>>
  ELSE IF Head(s) = "," THEN NoCommas(Tail(s)) ELSE <<Head(s)>> \o NoCommas(Tail(s))

IsAmountText(s, n) ==
  LET signed == s # <<>> /\ s[1] = "-"
      body == IF signed THEN Tail(s) ELSE s
      L == Len(body)
      ip == SubSeq(body, 1, L - 3)
      fp == SubSeq(body, L - 1, L)
      h == 100 * DigitsValue(NoCommas(ip)) + DigitsValue(fp)
  IN /\ signed = n.neg
     /\ L >= 4
     /\ body[L - 2] = "."
     /\ \A i \in 1..2 : fp[i] \in DigitChars
     /\ \A i \in 1..Len(ip) :
          IF (Len(ip) - i) % 4 = 3 THEN ip[i] = "," ELSE ip[i] \in DigitChars
     /\ ip[1] \in DigitChars
     /\ (Len(ip) > 1 => ip[1] # "0")
     \* | h / 100 - m / 10^e | <= 1 / 200
     /\ LET d == h * Pow10(n.e) - 100 * n.m
        IN 2 * (IF d < 0 THEN -d ELSE d) <= Pow10(n.e)

IsCurrencyText(v, n) ==
  /\ v.t = "string"
  /\ v.s # <<>>
  /\ v.s[1] = "yen"
  /\ IsAmountText(Tail(v.s), n)

Formatted(by) == formatted # None /\ formatted.by = by
DirectCall == amount # None /\ formatted # None

\* C9 as claimed: every amount that Number() parses (every non-NaN one) is
\* returned as the currency sign, the grouped amount and exactly two decimals.
C9_EveryNumberTwoDecimals ==
  (DirectCall /\ amount \notin {Null, Undefined, EmptyString}
     /\ ~IsNaN(ToNumber(amount)))
    => IsCurrencyText(formatted.v, ToNumber(amount))

\* C9, amended: formatCurrency returns "--" for null, undefined and ""; the
\* input's own string form for a non-empty value that Number() turns into NaN;
\* and for every value that parses as a FINITE number the currency sign followed
\* by the amount with thousands separators and exactly two decimals (an
\* infinite amount is the sign followed by the infinity sign, with no decimals).
\* formatCurrency(pick(retailPrice, price)) is "--" when both prices are absent.
C9_FormatCurrency ==
  /\ DirectCall =>
       IF amount \in {Null, Undefined, Str(<<>>)} THEN formatted.v = Str(<<"-", "-">>)
       ELSE IF IsNaN(ToNumber(amount))
         THEN /\ formatted.v.t = "string"
              /\ formatted.v.s = JsString(amount)
              /\ (amount.t = "string" => formatted.v = amount)
       ELSE IF IsFinite(ToNumber(amount))
         THEN IsCurrencyText(formatted.v, ToNumber(amount))
       ELSE formatted.v =
              Str(<<"yen">> \o (IF ToNumber(amount).neg THEN <<"-">> ELSE <<>>)
                    \o <<"infinity_sign">>)
  /\ (amount = None /\ formatted # None
        /\ \A i \in 1..2 : candidates[i] \in {Null, Undefined, Str(<<>>)})
       => formatted.v = Str(<<"-", "-">>)

\* 1234.5 has been formatted as the sign, "1,234.50".
C9_Witness ==
  /\ DirectCall
  /\ amount = Finite(FALSE, 12345, 1)
  /\ formatted.v = Str(<<"yen", "1", ",", "2", "3", "4", ".", "5", "0">>)

(***************************************************************************)
(* JSON text, character by character: JSON.stringify and JSON.parse over   *)
(* objects, strings, numbers, true, false and null.  Arrays, exponents and *)
(* string escapes are outside the model's alphabets; a text that starts    *)
(* one (such as "[object Object]") is a syntax error here as it is there.  *)
(***************************************************************************)
\* The keys of the configuration object, in the order JSON.stringify writes them.
SkuKeyOrder ==
  <<"configurationFullName", "configurationRetailPrice", "materialConfig",
    "fullName", "totalPrice">>
SkuKeys == {SkuKeyOrder[i] : i \in 1..Len(SkuKeyOrder)}

KeyChars(k) ==
  CASE k = "configurationFullName" ->
         <<"c", "o", "n", "f", "i", "g", "u", "r", "a", "t", "i", "o", "n", "F", "u", "l", "l", "N", "a", "m", "e">>
    [] k = "configurationRetailPrice" ->
         <<"c", "o", "n", "f", "i", "g", "u", "r", "a", "t", "i", "o", "n", "R", "e", "t", "a", "i", "l", "P", "r", "i", "c", "e">>
    [] k = "materialConfig" ->
         <<"m", "a", "t", "e", "r", "i", "a", "l", "C", "o", "n", "f", "i", "g">>
    [] k = "fullName" ->
         <<"f", "u", "l", "l", "N", "a", "m", "e">>
    [] k = "totalPrice" ->
         <<"t", "o", "t", "a", "l", "P", "r", "i", "c", "e">>

\* The property name a key's text denotes (every other text is one unread name).
KeyName(cs) == IF \E k \in SkuKeys : KeyChars(k) = cs
               THEN CHOOSE k \in SkuKeys : KeyChars(k) = cs
               ELSE "?"

Quote == "\""

RECURSIVE JsonStringify(_)
RECURSIVE StringifyMembers(_, _, _)
StringifyMembers(o, i, first) ==
  IF i > Len(SkuKeyOrder) THEN <<>>
  ELSE LET k == SkuKeyOrder[i]
       IN IF k \in DOMAIN o /\ o[k] # Undefined
          THEN (IF first THEN <<>> ELSE <<",">>)
                 \o <<Quote>> \o KeyChars(k) \o <<Quote, ":">> \o JsonStringify(o[k])
                 \o StringifyMembers(o, i + 1, FALSE)
          ELSE StringifyMembers(o, i + 1, first)

\* JSON.stringify(v) for a value other than undefined.
JsonStringify(v) ==
  CASE v.t = "null" -> <<"n", "u", "l", "l">>
    [] v.t = "boolean" -> JsString(v)
    [] v.t = "number" -> IF IsFinite(v) THEN NumberToString(v) ELSE <<"n", "u", "l", "l">>
    [] v.t = "string" -> <<Quote>> \o v.s \o <<Quote>>
    [] OTHER -> <<"{">> \o StringifyMembers(v.o, 1, TRUE) \o <<"}">>

ParseFail == [ok |-> FALSE]
Parsed(v, i) == [ok |-> TRUE, v |-> v, i |-> i]

RECURSIVE SkipWs(_, _)
SkipWs(s, i) == IF i <= Len(s) /\ s[i] \in WhiteSpace THEN SkipWs(s, i + 1) ELSE i

StartsWith(s, i, lit) ==
  /\ i + Len(lit) - 1 <= Len(s)
  /\ SubSeq(s, i, i + Len(lit) - 1) = lit

\* The string whose opening quote is just before position i.
ParseString(s, i) ==
  LET closing == {q \in i..Len(s) : s[q] = Quote}
  IN IF closing = {} THEN ParseFail
     ELSE LET q == CHOOSE q \in closing : \A r \in closing : q <= r
          IN Parsed(Str(SubSeq(s, i, q - 1)), q + 1)

RECURSIVE NumberEnd(_, _)
NumberEnd(s, i) ==
  IF i <= Len(s) /\ s[i] \in DigitChars \cup {"-", "."} THEN NumberEnd(s, i + 1) ELSE i

\* A JSON number starting at i:  -? (0 | [1-9][0-9]*) (. [0-9]+)?
ParseNumber(s, i) ==
  LET j == NumberEnd(s, i)
      tok == SubSeq(s, i, j - 1)
      neg == tok[1] = "-"
      u == IF neg THEN Tail(tok) ELSE tok
      dots == {d \in 1..Len(u) : u[d] = "."}
      d == IF dots = {} THEN Len(u) + 1 ELSE CHOOSE x \in dots : TRUE
      ip == SubSeq(u, 1, d - 1)
      fp == SubSeq(u, d + 1, Len(u))
      wellFormed ==
        /\ Cardinality(dots) <= 1
        /\ \A x \in 1..Len(u) : u[x] # "-"
        /\ ip # <<>>
        /\ (Len(ip) > 1 => ip[1] # "0")
        /\ (dots # {} => fp # <<>>)
  IN IF wellFormed THEN Parsed(Normalise(neg, DigitsValue(ip \o fp), Len(fp)), j)
     ELSE ParseFail

RECURSIVE ParseValue(_, _)
RECURSIVE ParseMembers(_, _, _, _)

\* (An intermediate result is bound as the one element of a set, and so computed
\* once, wherever the steps after it read it more than once.)

\* After a member's value v: "}" ends the object, "," brings the next member.
AfterMember(s, key, v, acc) ==
  IF ~v.ok THEN ParseFail
  ELSE LET e == SkipWs(s, v.i)
           acc2 == (KeyName(key) :> v.v) @@ acc
       IN IF e > Len(s) THEN ParseFail
          ELSE IF s[e] = "}" THEN Parsed(Obj(acc2), e + 1)
          ELSE IF s[e] = "," THEN ParseMembers(s, e + 1, acc2, FALSE)
          ELSE ParseFail

\* After a member's key k: ":" and the value.
AfterKey(s, k, acc) ==
  IF ~k.ok THEN ParseFail
  ELSE LET c == SkipWs(s, k.i)
       IN IF c > Len(s) \/ s[c] # ":" THEN ParseFail
          ELSE CHOOSE r \in {AfterMember(s, k.v.s, v, acc) : v \in {ParseValue(s, c + 1)}} :
                 TRUE

MembersAt(s, i, acc, first) ==
  IF i > Len(s) THEN ParseFail
  ELSE IF s[i] = "}" THEN (IF first THEN Parsed(Obj(acc), i + 1) ELSE ParseFail)
  ELSE IF s[i] # Quote THEN ParseFail
  ELSE CHOOSE r \in {AfterKey(s, k, acc) : k \in {ParseString(s, i + 1)}} : TRUE

\* The members of an object after "{" or ","; first: no member read yet.
ParseMembers(s, i0, acc, first) ==
  CHOOSE r \in {MembersAt(s, i, a, first) : i \in {SkipWs(s, i0)}, a \in {acc}} : TRUE

ValueAt(s, i) ==
  IF i > Len(s) THEN ParseFail
  ELSE IF s[i] = "{" THEN ParseMembers(s, i + 1, <<>>, TRUE)
  ELSE IF s[i] = Quote THEN ParseString(s, i + 1)
  ELSE IF s[i] \in DigitChars \cup {"-"} THEN ParseNumber(s, i)
  ELSE IF StartsWith(s, i, <<"n", "u", "l", "l">>) THEN Parsed(Null, i + 4)
  ELSE IF StartsWith(s, i, <<"t", "r", "u", "e">>) THEN Parsed(Bool(TRUE), i + 4)
  ELSE IF StartsWith(s, i, <<"f", "a", "l", "s", "e">>) THEN Parsed(Bool(FALSE), i + 5)
  ELSE ParseFail

ParseValue(s, i0) == CHOOSE r \in {ValueAt(s, i) : i \in {SkipWs(s, i0)}} : TRUE

WholeText(s, r) ==
  IF r.ok /\ SkipWs(s, r.i) > Len(s) THEN [ok |-> TRUE, v |-> r.v] ELSE ParseFail

\* JSON.parse(text): [ok |-> TRUE, v |-> value], or [ok |-> FALSE] where it throws
\* a SyntaxError.
JsonParse(text) ==
  CHOOSE p \in {WholeText(s, r) : s \in {text}, r \in {ParseValue(text, 1)}} : TRUE

(***************************************************************************)
(* The summary builders.                                                   *)
(***************************************************************************)
\* new Date().toLocaleString('zh-CN', ...): a non-empty text of the clock, whose
\* characters no field of a record depends on.
formatRequestTime == Str(<<"n", "o", "w">>)

\* `${data?.buyerProvinceName || ''} ${data?.buyerCityName || ''}`.trim()
ProvinceCity(data) ==
  Str(Trim(JsString(OrElse(Get(data, "buyerProvinceName"), EmptyString))
             \o <<" ">>
             \o JsString(OrElse(Get(data, "buyerCityName"), EmptyString))))

\* `${data?.exteriorColor || '--'} / ${data?.interiorColor || '--'}`
ColorPair(data) ==
  Str(JsString(OrElse(Get(data, "exteriorColor"), Placeholder))
        \o <<" ", "/", " ">>
        \o JsString(OrElse(Get(data, "interiorColor"), Placeholder)))

\* A plausible slip: the string form handed on unparsed.
SkuOfUnparsed(skuRaw) == OrElse(skuRaw, Obj(<<>>))

\* A plausible slip: JSON.parse outside a try, its SyntaxError escaping.
SkuOfUncaught(skuRaw) ==
  IF skuRaw.t = "string"
  THEN CHOOSE v \in {IF r.ok THEN r.v ELSE Threw : r \in {JsonParse(skuRaw.s)}} : TRUE
  ELSE OrElse(skuRaw, Obj(<<>>))

\* route.ts:44  typeof skuRaw === 'string' ? (try JSON.parse, catch {}) : (skuRaw || {})
SkuOf(skuRaw) ==
  IF skuRaw.t = "string"
  THEN CHOOSE v \in {IF r.ok THEN r.v ELSE Obj(<<>>) : r \in {JsonParse(skuRaw.s)}} : TRUE
  ELSE OrElse(skuRaw, Obj(<<>>))

\* A plausible slip: `??` where pick was meant to give the placeholder.
vehicleVinPicked(data) == pick(<<Get(data, "vehicleVin")>>)

\* route.ts:60  data?.vehicleVin ?? '--'
vehicleVinOf(data) == Coalesce(Get(data, "vehicleVin"), Placeholder)

\* buildOrderSummary of /api/order/summary (route.ts): the object returned, given
\* the sku of its first statement (an exception of which would leave the function).
SummaryOf(data, sku) ==
  IF sku = Threw THEN Threw ELSE
     [requestTime |-> formatRequestTime,
      orderNo |-> pick(<<Get(data, "orderNo"), Get(data, "orderSn")>>),
      businessOrderNo |-> pick(<<Get(data, "businessOrderNo"), Get(data, "businessOrderSn")>>),
      orderDate |-> pick(<<Get(data, "orderDate"), Get(data, "orderTime")>>),
      payDate |-> pick(<<Get(data, "payDate"), Get(data, "payTime")>>),
      buyerName |-> pick(<<Get(data, "buyerName"), Get(data, "realName")>>),
      buyerTel |-> pick(<<Get(data, "buyerTel"), Get(data, "mobile")>>),
      buyerIdNo |-> pick(<<Get(data, "buyerIdNo"), Get(data, "idNo")>>),
      cityName |-> pick(<<ProvinceCity(data), Get(data, "cityName")>>),
      dealerName |-> pick(<<Get(data, "dealerFullName"), Get(data, "dealerName"),
                            Get(data, "storeName")>>),
      vehicleModel |-> pick(<<Get(data, "vehicleModel"), Get(data, "carSeriesName")>>),
      vehicleVersion |-> pick(<<Get(data, "vehicleVersion"), Get(data, "carTypeName")>>),
      colorName |-> pick(<<ColorPair(data), Get(data, "colorName")>>),
      retailPrice |-> formatCurrency(pick(<<Get(data, "retailPrice"), Get(data, "price")>>)),
      vehicleVin |-> vehicleVinOf(data),
      configurationFullName |->
        pick(<<Get(sku, "configurationFullName"),
               Get(Get(sku, "materialConfig"), "fullName")>>),
      configurationRetailPrice |->
        formatCurrency(pick(<<Get(sku, "configurationRetailPrice"),
                              Get(Get(sku, "materialConfig"), "totalPrice")>>))]

buildOrderSummary(data) ==
  CHOOSE r \in {SummaryOf(data, sku) : sku \in {SkuOf(Get(data, "skuDetail"))}} : TRUE


\* line(k, v) of the e-mail body, `${k}: ${v ?? '--'}`, kept as the label (by the
\* name of the summary field it shows) and the text after ": ".
line(k, v) == [label |-> k, text |-> JsString(Coalesce(v, Placeholder))]

\* buildOrderSummaryText of the notifier scripts (next.config.ts): the lines of
\* the body in order; the body is the lines joined by "\n".  (skuObj is
\* computed there and never read.)
buildOrderSummaryText(data) ==
  <<line("requestTime", formatRequestTime),
    line("vehicleVin", Get(data, "vehicleVin")),
    line("orderNo", pickNotifier(<<Get(data, "orderNo"), Get(data, "orderSn")>>)),
    line("businessOrderNo",
         pickNotifier(<<Get(data, "businessOrderNo"), Get(data, "businessOrderSn")>>)),
    line("orderDate", pickNotifier(<<Get(data, "orderDate"), Get(data, "orderTime")>>)),
    line("payDate", pickNotifier(<<Get(data, "payDate"), Get(data, "payTime")>>)),
    line("buyerName", pickNotifier(<<Get(data, "buyerName"), Get(data, "realName")>>)),
    line("buyerTel", pickNotifier(<<Get(data, "buyerTel"), Get(data, "mobile")>>)),
    line("buyerIdNo", pickNotifier(<<Get(data, "buyerIdNo"), Get(data, "idNo")>>)),
    line("cityName", pickNotifier(<<ProvinceCity(data), Get(data, "cityName")>>)),
    line("dealerName",
         pickNotifier(<<Get(data, "dealerFullName"), Get(data, "dealerName"),
                        Get(data, "storeName")>>)),
    line("vehicleModel",
         pickNotifier(<<Get(data, "vehicleModel"), Get(data, "carSeriesName")>>)),
    line("vehicleVersion",
         pickNotifier(<<Get(data, "vehicleVersion"), Get(data, "carTypeName")>>)),
    line("colorName", pickNotifier(<<ColorPair(data), Get(data, "colorName")>>)),
    line("retailPrice",
         formatCurrencyNotifier(pickNotifier(<<Get(data, "retailPrice"),
                                               Get(data, "price")>>)))>>

\* safeJsonParse of lib/order.ts: null for a falsy text, else JSON.parse of the
\* argument (converted to a string, as JSON.parse converts it), null where it throws.
safeJsonParse(text) ==
  IF ~Truthy(text) THEN Null
  ELSE CHOOSE v \in {IF r.ok THEN r.v ELSE Null : r \in {JsonParse(JsString(text))}} : TRUE

\* A plausible slip: the test for a missing amount left out.
formatCurrencyPageUnguarded(a) == Str(<<"yen">> \o JsString(a))

\* formatCurrency of the page (page.tsx:34)
formatCurrencyPage(a) ==
  IF a = Null \/ a = Undefined THEN Placeholder ELSE Str(<<"yen">> \o JsString(a))

\* [data.buyerProvinceName, data.buyerCityName].filter(Boolean).join(" ")
ProvinceCityPage(data) ==
  LET p == Get(data, "buyerProvinceName")
      c == Get(data, "buyerCityName")
  IN Str((IF Truthy(p) THEN JsString(p) ELSE <<>>)
           \o (IF Truthy(p) /\ Truthy(c) THEN <<" ">> ELSE <<>>)
           \o (IF Truthy(c) THEN JsString(c) ELSE <<>>))

\* buildOrderSummary of the page (page.tsx): the list returned, by the name of
\* the summary field each label shows, given the sku of its third statement.
SummaryPageOf(data, sku) ==
  LET mc == Get(sku, "materialConfig")
  IN [requestTime |-> formatRequestTime,
      orderNo |-> OrElse(Get(data, "orderNo"), Placeholder),
      businessOrderNo |-> OrElse(Get(data, "businessOrderNo"), Placeholder),
      orderDate |-> OrElse(Get(data, "orderDate"), Placeholder),
      payDate |-> OrElse(Get(data, "payDate"), Placeholder),
      buyerName |-> OrElse(Get(data, "buyerName"), Placeholder),
      buyerTel |-> OrElse(Get(data, "buyerTel"), Placeholder),
      buyerIdNo |-> OrElse(Get(data, "buyerIdNo"), Placeholder),
      cityName |-> OrElse(ProvinceCityPage(data), Placeholder),
      dealerName |-> OrElse(Get(data, "dealerFullName"),
                            OrElse(Get(data, "dealerName"), Placeholder)),
      vehicleModel |-> OrElse(Get(data, "vehicleModel"), Placeholder),
      vehicleVersion |-> OrElse(Get(data, "vehicleVersion"), Placeholder),
      colorName |->
        Str(JsString(Coalesce(Get(data, "exteriorColor"), Placeholder))
              \o <<" ", "/", " ">>
              \o JsString(Coalesce(Get(data, "interiorColor"), Placeholder))),
      retailPrice |->
        formatCurrencyPage(Coalesce(Get(data, "retailPrice"),
                                    Coalesce(Get(data, "price"), Null))),
      vehicleVin |-> OrElse(Get(data, "vehicleVin"), Placeholder),
      configurationFullName |-> OrElse(Get(mc, "fullName"), Placeholder),
      configurationRetailPrice |->
        formatCurrencyPage(Coalesce(Get(mc, "totalPrice"), Null))]

buildOrderSummaryPage(data) ==
  CHOOSE r \in {SummaryPageOf(data, sku) :
                  sku \in {safeJsonParse(Coalesce(Get(data, "skuDetail"), Null))}} : TRUE

(***************************************************************************)
(* SpecSummary: an order record of the upstream API, any value of a small  *)
(* set under at most MaxFields of the keys the builders read, handed to    *)
(* buildOrderSummary (route.ts) and to buildOrderSummaryText (notifier).   *)
(***************************************************************************)
PlainKeys ==
  {"orderNo", "orderSn", "businessOrderNo", "businessOrderSn", "orderDate",
   "orderTime", "payDate", "payTime", "buyerName", "realName", "buyerTel",
   "mobile", "buyerIdNo", "idNo", "buyerProvinceName", "buyerCityName",
   "cityName", "dealerFullName", "dealerName", "storeName", "vehicleModel",
   "carSeriesName", "vehicleVersion", "carTypeName", "exteriorColor",
   "interiorColor", "colorName", "retailPrice", "price", "vehicleVin"}

RecordKeys == PlainKeys \cup {"skuDetail"}

SampleSku ==
  Obj([configurationFullName |-> Str(<<"A">>),
       materialConfig |-> Obj([totalPrice |-> IntNum(19)])])

\* The keys that also carry a number in the model's records: the two prices the
\* API types as numbers, and the first source of a field of each kind.
NumberKeys ==
  {"retailPrice", "price", "orderNo", "vehicleVin", "buyerProvinceName",
   "exteriorColor", "cityName"}

FieldValues(k) ==
  IF k = "skuDetail"
  THEN {Null, EmptyString, Str(<<"{", "a">>), Str(<<"n", "u", "l", "l">>), Str(<<"7">>),
        IntNum(7), SampleSku, Str(JsonStringify(SampleSku))}
  ELSE {Null, EmptyString, Str(<<"A">>)}
         \cup (IF k \in NumberKeys THEN {IntNum(7)} ELSE {})

InitSummary ==
  /\ raw \in {Undefined, Null, Str(<<"A">>), IntNum(7), Obj(<<>>)}
  /\ summary = None /\ summaryText = None
  /\ NoCurrency /\ NoConfig /\ NoNotifier /\ NoSurfaces

\* The upstream record holds one more field.
SetField ==
  /\ raw.t = "object" /\ summary = None /\ summaryText = None
  /\ Cardinality(DOMAIN raw.o) < MaxFields
  /\ \E k \in RecordKeys \ DOMAIN raw.o : \E v \in FieldValues(k) :
       raw' = Obj((k :> v) @@ raw.o)
  /\ UNCHANGED <<summary, summaryText, currencyVars, configVars, notifierVars, surfaceVars>>

\* GET /api/order/summary builds the summary of the record.
BuildSummary ==
  /\ summary = None /\ summaryText = None
  /\ summary' = buildOrderSummary(raw)
  /\ UNCHANGED <<raw, summaryText, currencyVars, configVars, notifierVars, surfaceVars>>

\* A notifier run builds the e-mail body of the record.
BuildText ==
  /\ summary = None /\ summaryText = None
  /\ summaryText' = buildOrderSummaryText(raw)
  /\ UNCHANGED <<raw, summary, currencyVars, configVars, notifierVars, surfaceVars>>

NextSummary == SetField \/ BuildSummary \/ BuildText

SpecSummary == InitSummary /\ [][NextSummary]_vars

SummaryFields ==
  {"requestTime", "orderNo", "businessOrderNo", "orderDate", "payDate", "buyerName",
   "buyerTel", "buyerIdNo", "cityName", "dealerName", "vehicleModel",
   "vehicleVersion", "colorName", "retailPrice", "vehicleVin",
   "configurationFullName", "configurationRetailPrice"}

\* The keys of the record a summary field is read from.
SourceKeys(f) ==
  CASE f = "orderNo" -> {"orderNo", "orderSn"}
    [] f = "businessOrderNo" -> {"businessOrderNo", "businessOrderSn"}
    [] f = "orderDate" -> {"orderDate", "orderTime"}
    [] f = "payDate" -> {"payDate", "payTime"}
    [] f = "buyerName" -> {"buyerName", "realName"}
    [] f = "buyerTel" -> {"buyerTel", "mobile"}
    [] f = "buyerIdNo" -> {"buyerIdNo", "idNo"}
    [] f = "cityName" -> {"buyerProvinceName", "buyerCityName", "cityName"}
    [] f = "dealerName" -> {"dealerFullName", "dealerName", "storeName"}
    [] f = "vehicleModel" -> {"vehicleModel", "carSeriesName"}
    [] f = "vehicleVersion" -> {"vehicleVersion", "carTypeName"}
    [] f = "colorName" -> {"exteriorColor", "interiorColor", "colorName"}
    [] f = "retailPrice" -> {"retailPrice", "price"}
    [] f = "vehicleVin" -> {"vehicleVin"}
    [] OTHER -> {}

RecordFields == {f \in SummaryFields : SourceKeys(f) # {}}

IsEmpty(v) == v.t \in {"null", "undefined"} \/ (v.t = "string" /\ Len(v.s) = 0)
IsNullish(v) == v.t \in {"null", "undefined"}

\* The configuration object a record carries, in either form (undefined when
\* there is none or its text does not parse).
SkuView ==
  LET d == Get(raw, "skuDetail")
  IN IF d.t = "string"
     THEN (IF JsonParse(d.s).ok THEN JsonParse(d.s).v ELSE Undefined)
     ELSE d

ConfigSources(f) ==
  IF f = "configurationFullName"
  THEN {Get(SkuView, "configurationFullName"), Get(Get(SkuView, "materialConfig"), "fullName")}
  ELSE {Get(SkuView, "configurationRetailPrice"),
        Get(Get(SkuView, "materialConfig"), "totalPrice")}

\* The values a summary field is read from.
Sources(f) ==
  IF f \in RecordFields THEN {Get(raw, k) : k \in SourceKeys(f)} ELSE ConfigSources(f)

AllSourcesEmpty(f) == \A v \in Sources(f) : IsEmpty(v)

BodyText(f) ==
  LET i == CHOOSE i \in 1..Len(summaryText) : summaryText[i].label = f
  IN summaryText[i].text
BodyFields == IF summaryText = None THEN {}
              ELSE {summaryText[i].label : i \in 1..Len(summaryText)} \ {"requestTime"}

\* C6 as claimed: every field of the summary is a string.
C6_EveryFieldAString ==
  summary # None =>
    /\ summary # Threw
    /\ \A f \in SummaryFields : summary[f].t = "string"

\* C6, amended: for every record whose fields are JSON values, buildOrderSummary
\* does not throw and no field of the summary is null or undefined; requestTime,
\* colorName, retailPrice and configurationRetailPrice are always strings, and
\* every other field is a string unless its first non-empty source value is not
\* one (a number, a boolean, an object), which is then returned unchanged.
C6_SummaryFieldsDefined ==
  summary # None =>
    /\ summary # Threw
    /\ DOMAIN summary = SummaryFields
    /\ \A f \in SummaryFields :
         /\ summary[f].t \notin {"null", "undefined", "none", "threw"}
         /\ (f \in {"requestTime", "colorName", "retailPrice", "configurationRetailPrice"}
               => summary[f].t = "string")
         /\ (summary[f].t # "string" => summary[f] \in Sources(f))

\* A record with a number under orderNo and an unparsable skuDetail text has been
\* summarised: orderNo is that number, the configuration name the placeholder.
C6_Witness ==
  /\ summary \notin {None, Threw}
  /\ Get(raw, "orderNo") = IntNum(7)
  /\ Get(raw, "skuDetail") = Str(<<"{", "a">>)
  /\ summary.orderNo = IntNum(7)
  /\ summary.configurationFullName = Str(<<"-", "-">>)

\* C7 as claimed: a field whose every source value is null, undefined, absent
\* or "" is displayed as "--", in the summary and in the e-mail body, the VIN
\* included.
C7_EveryEmptyFieldPlaceholder ==
  /\ (summary \notin {None, Threw}) =>
       \A f \in SummaryFields \ {"requestTime"} :
         AllSourcesEmpty(f) => summary[f] = Str(<<"-", "-">>)
  /\ \A f \in BodyFields : AllSourcesEmpty(f) => BodyText(f) = <<"-", "-">>

\* C7, amended: in the summary and in the e-mail body, a field other than the
\* colour pair and the VIN whose every source value is null, undefined, absent or
\* "" is displayed as "--"; the VIN is displayed as "--" when it is null,
\* undefined or absent, and an empty-string VIN is displayed as the empty string;
\* the colour pair whose sources are all empty is displayed as "-- / --".
C7_EmptyFieldDisplay ==
  /\ (summary \notin {None, Threw}) =>
       /\ \A f \in SummaryFields \ {"requestTime", "colorName", "vehicleVin"} :
            AllSourcesEmpty(f) => summary[f] = Str(<<"-", "-">>)
       /\ (IsNullish(Get(raw, "vehicleVin")) => summary.vehicleVin = Str(<<"-", "-">>))
       /\ (Get(raw, "vehicleVin") = Str(<<>>) => summary.vehicleVin = Str(<<>>))
       /\ (AllSourcesEmpty("colorName")
             => summary.colorName = Str(<<"-", "-", " ", "/", " ", "-", "-">>))
  /\ \A f \in BodyFields \ {"colorName", "vehicleVin"} :
       AllSourcesEmpty(f) => BodyText(f) = <<"-", "-">>
  /\ (summaryText # None) =>
       /\ (IsNullish(Get(raw, "vehicleVin")) => BodyText("vehicleVin") = <<"-", "-">>)
       /\ (Get(raw, "vehicleVin") = Str(<<>>) => BodyText("vehicleVin") = <<>>)
       /\ (AllSourcesEmpty("colorName")
             => BodyText("colorName") = <<"-", "-", " ", "/", " ", "-", "-">>)

\* A record whose orderNo is null and whose orderSn is "" has been summarised,
\* and the order number is the placeholder.
C7_Witness ==
  /\ summary \notin {None, Threw}
  /\ raw.t = "object"
  /\ DOMAIN raw.o = {"orderNo", "orderSn"}
  /\ raw.o.orderNo = Null
  /\ raw.o.orderSn = Str(<<>>)
  /\ summary.orderNo = Str(<<"-", "-">>)

(***************************************************************************)
(* SpecConfig: one configuration object handed to a builder as skuDetail,  *)
(* pre-parsed, as its JSON text, and as a text that does not parse.  The   *)
(* values are those a parsed JSON payload can hold: strings, finite        *)
(* numbers (-0 among them), null and nested objects.                       *)
(***************************************************************************)
MinusZero == Finite(TRUE, 0, 0)

NameInputs == {Null, EmptyString, Str(<<"A">>)}
ConfigPriceInputs ==
  {Null, EmptyString, Finite(FALSE, 12345, 1), MinusZero, Str(<<"1", "9">>), Str(<<"a">>)}

\* The functions on a subset of the two keys, a key left out being absent.
Optional2(k1, vs1, k2, vs2) ==
  {<<>>}
    \cup {(k1 :> a) : a \in vs1}
    \cup {(k2 :> b) : b \in vs2}
    \cup {(k1 :> a) @@ (k2 :> b) : a \in vs1, b \in vs2}

MaterialConfigInputs ==
  {Null} \cup {Obj(o) : o \in Optional2("fullName", NameInputs,
                                        "totalPrice", ConfigPriceInputs)}

ConfigInputs ==
  {Obj(top @@ mc) :
     top \in Optional2("configurationFullName", NameInputs,
                       "configurationRetailPrice", ConfigPriceInputs),
     mc \in {<<>>} \cup {("materialConfig" :> m) : m \in MaterialConfigInputs}}

\* Texts JSON.parse rejects: the empty text, cuts of the object's own text, and
\* two that never were JSON.
BrokenTexts(o) ==
  LET enc == JsonStringify(o)
  IN {SubSeq(enc, 1, k) : k \in {0, 1, Len(enc) \div 2, Len(enc) - 1}}
       \cup {<<"a">>, enc \o <<"}">>}

Forms == {"parsed", "encoded", "broken"}

InitConfig ==
  /\ config \in ConfigInputs
  /\ surface \in {"route", "page"}
  /\ out = [f \in Forms |-> None]
  /\ NoCurrency /\ NoSummary /\ NoNotifier /\ NoSurfaces

SummaryOn(s, data) ==
  IF s = "route" THEN buildOrderSummary(data) ELSE buildOrderSummaryPage(data)

\* The builder is handed the record whose skuDetail is d.
Supplied(form, d) ==
  /\ out[form] = None
  /\ \E r \in {SummaryOn(surface, Obj([skuDetail |-> d]))} :
       out' = [out EXCEPT ![form] = [skuDetail |-> d, summary |-> r]]
  /\ UNCHANGED <<config, surface, currencyVars, summaryVars, notifierVars, surfaceVars>>

SupplyParsed == Supplied("parsed", config)
SupplyEncoded == \E d \in {Str(JsonStringify(config))} : Supplied("encoded", d)
SupplyBroken == \E b \in BrokenTexts(config) : Supplied("broken", Str(b))

NextConfig == SupplyParsed \/ SupplyEncoded \/ SupplyBroken

SpecConfig == InitConfig /\ [][NextConfig]_vars

ConfigPart(r) ==
  <<r.summary.configurationFullName, r.summary.configurationRetailPrice>>
PlaceholderPair == <<Str(<<"-", "-">>), Str(<<"-", "-">>)>>
Built(form) == out # None /\ out[form] # None /\ out[form].summary # Threw

\* The object holds the number -0, which JSON.stringify writes as 0.
HoldsMinusZero(c) ==
  \/ \E k \in DOMAIN c.o : c.o[k] = MinusZero
  \/ /\ "materialConfig" \in DOMAIN c.o
     /\ c.o.materialConfig.t = "object"
     /\ \E k \in DOMAIN c.o.materialConfig.o : c.o.materialConfig.o[k] = MinusZero

\* C10 as claimed: the JSON text of a configuration object gives the same
\* configuration name and price as the object itself, and a text that does not
\* parse gives the placeholder for both without throwing, in the builders of
\* route.ts and of page.tsx.
C10_SameInEitherForm ==
  /\ (out # None /\ out["parsed"] # None /\ out["encoded"] # None) =>
       /\ Built("parsed") /\ Built("encoded")
       /\ ConfigPart(out["parsed"]) = ConfigPart(out["encoded"])
  /\ (out # None /\ out["broken"] # None) =>
       /\ Built("broken")
       /\ ConfigPart(out["broken"]) = PlaceholderPair

\* C10, amended: in buildOrderSummary of /api/order/summary (route.ts) the JSON
\* text of a configuration object that holds no -0 gives the same configuration
\* name and price as the object itself; the page's builder (page.tsx) reads the
\* text form only and shows the placeholder for both when handed the object; in
\* both builders a text that does not parse gives the placeholder for both,
\* without throwing.
C10_RoundTrip ==
  /\ (out # None /\ out["parsed"] # None /\ out["encoded"] # None) =>
       /\ Built("parsed") /\ Built("encoded")
       /\ IF surface = "route"
          THEN ~HoldsMinusZero(config) =>
                 ConfigPart(out["parsed"]) = ConfigPart(out["encoded"])
          ELSE ConfigPart(out["parsed"]) = PlaceholderPair
  /\ (out # None /\ out["encoded"] # None /\ surface = "route") =>
       \* the text is read as the object it encodes
       out["encoded"].summary.configurationFullName =
         pick(<<Get(config, "configurationFullName"),
                Get(Get(config, "materialConfig"), "fullName")>>)
  /\ (out # None /\ out["broken"] # None) =>
       /\ Built("broken")
       /\ ConfigPart(out["broken"]) = PlaceholderPair

\* A configuration with a name and a price under materialConfig has gone through
\* route.ts in both forms, and the name and the formatted price came out.
C10_Witness ==
  /\ surface = "route"
  /\ Built("parsed") /\ Built("encoded")
  /\ out["encoded"].skuDetail.t = "string"
  /\ Get(Get(config, "materialConfig"), "fullName") = Str(<<"A">>)
  /\ ConfigPart(out["encoded"])
       = <<Str(<<"A">>), Str(<<"yen", "1", ",", "2", "3", "4", ".", "5", "0">>)>>
  /\ ConfigPart(out["parsed"]) = ConfigPart(out["encoded"])

(***************************************************************************)
(* The notifier scripts (next.config.ts): one run of main, step by step.   *)
(* The two scripts hold the same fetchOrderJson, createTransporter,        *)
(* sendEmail and buildOrderSummaryText; they differ in main's cadence.     *)
(***************************************************************************)
ExitCode(n) == [t |-> "exit", code |-> n]

\* "VIN生成通知：" and "订单进度提醒：暂未生成VIN", one name per character.
VinSubjectPrefix == <<"V", "I", "N", "sheng", "cheng", "tong", "zhi", "fullwidth_colon">>
ReminderSubject ==
  <<"ding", "dan", "jin", "du", "ti", "xing", "fullwidth_colon",
    "zan", "wei", "sheng", "cheng", "V", "I", "N">>

\* A plausible slip: the subject without the VIN.
VinSubjectWithoutVin(vin) == VinSubjectPrefix

\* `VIN生成通知：${vin}`
VinSubject(vin) == VinSubjectPrefix \o JsString(vin)

\* payload?.data || payload
dataOf(p) == OrElse(Get(p, "data"), p)

\* a % d of JavaScript for a positive integer d: the sign of the dividend, NaN
\* for NaN and the infinities.
JsRem(a, d) ==
  IF ~IsFinite(a) THEN NaN ELSE Normalise(a.neg, a.m % (d * Pow10(a.e)), a.e)

\* a > 0
GreaterThanZero(a) == ~IsNaN(a) /\ ~a.neg /\ (a.k = "Infinity" \/ a.m > 0)

\* What Intl.DateTimeFormat('zh-CN', {hour: '2-digit', hour12: false, timeZone:
\* 'Asia/Shanghai'}) writes for the hour h.  It depends on the locale data of
\* the runtime: with the zh-CN data (full ICU) the hour is followed by U+65F6
\* ("09时"); a runtime without it falls back to its default locale's pattern,
\* the two digits alone.
IcuBuilds == {"full", "small"}
Hours == 0..23
FormatHour(h, icu) ==
  PadLeft(IntToChars(h), 2) \o (IF icu = "full" THEN <<"shi">> ELSE <<>>)

\* getBeijingHour, given the text the formatter wrote: Number(hourStr)
getBeijingHour(hourStr) == StringToNumber(hourStr)

\* runStr ? Number(runStr) : NaN
runNumOf(runStr) == IF Truthy(runStr) THEN ToNumber(runStr) ELSE NaN

\* The test that keeps shouldSendSummaryByCycle from calling getBeijingHour.
UsesRunNumber(runStr) == ~IsNaN(runNumOf(runStr)) /\ GreaterThanZero(runNumOf(runStr))

\* A plausible slip: the remainder compared with 1.
shouldSendSummaryOffByOne(runStr, hourStr) ==
  IF UsesRunNumber(runStr)
  THEN JsRem(runNumOf(runStr), 3) = IntNum(1)
  ELSE IsZero(JsRem(getBeijingHour(hourStr), 3))

\* A plausible slip: the hour taken whatever the run number.
shouldSendSummaryByHour(runStr, hourStr) == IsZero(JsRem(getBeijingHour(hourStr), 3))

\* shouldSendSummaryByCycle (period-3 script); hourStr is read only where the
\* code calls getBeijingHour.
shouldSendSummaryByCycle(runStr, hourStr) ==
  IF UsesRunNumber(runStr)
  THEN IsZero(JsRem(runNumOf(runStr), 3))
  ELSE IsZero(JsRem(getBeijingHour(hourStr), 3))

\* A plausible slip: a missing counter taken as 1.
runNumberOrOne(runStr) == OrElse(ToNumber(OrElse(runStr, IntNum(1))), IntNum(1))

\* Number(process.env.GITHUB_RUN_NUMBER || 0) || 0   (period-2 script)
runNumberOf(runStr) == OrElse(ToNumber(OrElse(runStr, IntNum(0))), IntNum(0))

\* process.env.MAIL_TO || '1196270151@qq.com'
DefaultMailTo == Str(<<"default_recipient">>)
getMailTo(e) == OrElse(e.MAIL_TO, DefaultMailTo)

\* A plausible slip: the password left out of the completeness test.
createTransporterWithoutPass(e) ==
  LET port == IF Truthy(e.SMTP_PORT) THEN ToNumber(e.SMTP_PORT) ELSE Undefined
  IN IF ~Truthy(e.SMTP_HOST) \/ ~Truthy(port) \/ ~Truthy(e.SMTP_USER)
     THEN Null
     ELSE Obj([host |-> e.SMTP_HOST, port |-> port, secure |-> Bool(port = IntNum(465)),
               user |-> e.SMTP_USER, pass |-> e.SMTP_PASS])

\* createTransporter: null when host, port, user or pass is missing.
createTransporter(e) ==
  LET port == IF Truthy(e.SMTP_PORT) THEN ToNumber(e.SMTP_PORT) ELSE Undefined
  IN IF ~Truthy(e.SMTP_HOST) \/ ~Truthy(port) \/ ~Truthy(e.SMTP_USER) \/ ~Truthy(e.SMTP_PASS)
     THEN Null
     ELSE Obj([host |-> e.SMTP_HOST, port |-> port, secure |-> Bool(port = IntNum(465)),
               user |-> e.SMTP_USER, pass |-> e.SMTP_PASS])

\* sendEmail(subject, text): skipped without a transporter or a sender,
\* otherwise handed to transporter.sendMail and awaited.
sendEmail(subject, text) ==
  LET transporter == createTransporter(env)
      msg == [subject |-> subject, text |-> text, from |-> env.MAIL_FROM,
              to |-> getMailTo(env)]
  IN IF transporter = Null \/ ~Truthy(env.MAIL_FROM)
     THEN /\ mail' = msg @@ [state |-> "skipped"]
          /\ calls' = calls
          /\ pc' = "exited"
          /\ exitCode' = ExitCode(0)
     ELSE /\ mail' = msg @@ [state |-> "inflight"]
          /\ calls' = [calls EXCEPT !.sendMail = @ + 1]
          /\ pc' = "sending"
          /\ exitCode' = exitCode

\* The run number of the workflow, as the runner writes it into the environment.
RunChars == {"0", "3", "4", "-", ".", "a"}
RunInputs == {Undefined} \cup {Str(r) : r \in StringsUpTo(RunChars, MaxRunLen)}

SmtpComplete ==
  [SMTP_HOST |-> Str(<<"h">>), SMTP_PORT |-> Str(<<"4", "6", "5">>),
   SMTP_USER |-> Str(<<"u">>), SMTP_PASS |-> Str(<<"p">>),
   MAIL_FROM |-> Str(<<"f">>), MAIL_TO |-> Undefined]
SmtpInputs ==
  {SmtpComplete,
   [SmtpComplete EXCEPT !.MAIL_TO = Str(<<"t">>)],
   [SmtpComplete EXCEPT !.SMTP_HOST = Undefined],
   [SmtpComplete EXCEPT !.SMTP_PORT = Str(<<"0">>)],
   [SmtpComplete EXCEPT !.SMTP_PORT = Undefined],
   [SmtpComplete EXCEPT !.SMTP_USER = Undefined],
   [SmtpComplete EXCEPT !.SMTP_PASS = EmptyString],
   [SmtpComplete EXCEPT !.MAIL_FROM = EmptyString]}

EnvOf(run, url, smtp) == [GITHUB_RUN_NUMBER |-> run, ORDER_URL |-> url] @@ smtp

\* Order records by their vehicleVin, alone, under "data", and beside a data
\* member that is null; and a JSON text that is no object.
VinInputs == {Null, EmptyString, Str(<<"L", "1">>), IntNum(7), IntNum(0)}
OrderRecords ==
  {Obj(<<>>), Obj([orderNo |-> Str(<<"A">>)])}
    \cup {Obj([vehicleVin |-> v]) : v \in VinInputs}
Payloads ==
  OrderRecords
    \cup {Obj([data |-> r]) : r \in OrderRecords}
    \cup {Obj([data |-> Null, vehicleVin |-> Str(<<"L", "1">>)]), Str(<<"A">>)}

\* What the order interface answers: a status that is not ok, a body that is
\* not JSON, or a JSON value.
Responses ==
  {[ok |-> FALSE, json |-> None], [ok |-> TRUE, json |-> None]}
    \cup {[ok |-> TRUE, json |-> v] : v \in Payloads \cup {Null, IntNum(0)}}

\* A plausible slip: the body handed on without the test `if (!json) throw`.
ReturnsUnchecked(res) == res.ok

\* fetchOrderJson returns the body: the status is ok and the body is JSON that is
\* not falsy; otherwise it throws.
Returns(res) == res.ok /\ res.json # None /\ Truthy(res.json)

InitRun ==
  /\ pc = "start"
  /\ response = None /\ payload = None /\ calls = NoCalls
  /\ clock = None /\ mail = None /\ exitCode = None

\* A plausible slip: a failed request made once more before giving up.
FetchedWithRetry(answers) ==
  /\ pc = "start"
  /\ IF ~Truthy(env.ORDER_URL)
     THEN pc' = "rejected" /\ UNCHANGED <<response, payload, calls>>
     ELSE \E res \in answers :
            /\ response' = res
            /\ calls' = [calls EXCEPT !.fetch = @ + 1]
            /\ IF Returns(res)
               THEN pc' = "fetched" /\ payload' = res.json
               ELSE /\ pc' = IF calls.fetch = 0 THEN "start" ELSE "rejected"
                    /\ payload' = payload
  /\ UNCHANGED <<period, env, clock, mail, exitCode, runs,
                 currencyVars, summaryVars, configVars, surfaceVars>>

\* fetchOrderJson, awaited by main: throws without ORDER_URL, on a status that
\* is not ok, and on a body that is not JSON or is a falsy JSON value.
Fetched(answers) ==
  /\ pc = "start"
  /\ IF ~Truthy(env.ORDER_URL)
     THEN pc' = "rejected" /\ UNCHANGED <<response, payload, calls>>
     ELSE \E res \in answers :
            /\ response' = res
            /\ calls' = [calls EXCEPT !.fetch = @ + 1]
            /\ IF Returns(res)
               THEN pc' = "fetched" /\ payload' = res.json
               ELSE pc' = "rejected" /\ payload' = payload
  /\ UNCHANGED <<period, env, clock, mail, exitCode, runs,
                 currencyVars, summaryVars, configVars, surfaceVars>>

fetchOrderJson == Fetched(Responses)

\* The no-VIN branch of the period-3 main: shouldSendSummaryByCycle, which reads
\* the clock only without a usable run number, and the reminder or the log line.
remind(text) ==
  \E h \in IF UsesRunNumber(env.GITHUB_RUN_NUMBER) THEN {0} ELSE Hours,
     icu \in IF UsesRunNumber(env.GITHUB_RUN_NUMBER) THEN {"small"} ELSE IcuBuilds :
    /\ clock' = IF UsesRunNumber(env.GITHUB_RUN_NUMBER) THEN clock
                ELSE [t |-> "clock", hour |-> h, icu |-> icu]
    /\ IF shouldSendSummaryByCycle(env.GITHUB_RUN_NUMBER, FormatHour(h, icu))
       THEN sendEmail(ReminderSubject, text)
       ELSE pc' = "exited" /\ exitCode' = ExitCode(0) /\ mail' = mail /\ calls' = calls

\* main of the period-3 script, from the payload to the call of sendEmail.
mainPeriod3 ==
  /\ pc = "fetched" /\ period = 3
  /\ LET data == dataOf(payload)
         vin == Get(data, "vehicleVin")
     IN \E text \in {buildOrderSummaryText(data)} :
          IF Truthy(vin)
          THEN sendEmail(VinSubject(vin), text) /\ clock' = clock
          ELSE remind(text)
  /\ UNCHANGED <<period, env, response, payload, runs,
                 currencyVars, summaryVars, configVars, surfaceVars>>

\* main of the period-2 script, from the payload to the call of sendEmail.
mainPeriod2 ==
  /\ pc = "fetched" /\ period = 2
  /\ LET runNumber == runNumberOf(env.GITHUB_RUN_NUMBER)
         data == dataOf(payload)
         vin == Get(data, "vehicleVin")
     IN \E text \in {buildOrderSummaryText(data)} :
          IF Truthy(vin)
          THEN sendEmail(VinSubject(vin), text)
          ELSE IF IsZero(JsRem(runNumber, 2))
               THEN sendEmail(ReminderSubject, text)
               ELSE pc' = "exited" /\ exitCode' = ExitCode(0) /\ mail' = mail /\ calls' = calls
  /\ UNCHANGED <<period, env, response, payload, clock, runs,
                 currencyVars, summaryVars, configVars, surfaceVars>>

\* transporter.sendMail settles: delivered, and main returns; or rejected.
sendMail ==
  /\ pc = "sending"
  /\ \/ mail' = [mail EXCEPT !.state = "sent"] /\ pc' = "exited" /\ exitCode' = ExitCode(0)
     \/ mail' = [mail EXCEPT !.state = "failed"] /\ pc' = "rejected" /\ exitCode' = exitCode
  /\ UNCHANGED <<period, env, response, payload, calls, clock, runs,
                 currencyVars, summaryVars, configVars, surfaceVars>>

\* main().catch: the error is logged and the process exits with 1.
mainCatch ==
  /\ pc = "rejected"
  /\ pc' = "exited"
  /\ exitCode' = ExitCode(1)
  /\ UNCHANGED <<period, env, response, payload, calls, clock, mail, runs,
                 currencyVars, summaryVars, configVars, surfaceVars>>

(***************************************************************************)
(* SpecNotify: one run of either script, over every environment, answer of *)
(* the order interface, hour and locale data of the model.                 *)
(***************************************************************************)
InitNotify ==
  /\ period \in {3, 2}
  /\ env \in {EnvOf(run, Str(<<"u">>), smtp) : run \in RunInputs, smtp \in SmtpInputs}
            \cup {EnvOf(run, Undefined, SmtpComplete) : run \in RunInputs}
  /\ InitRun
  /\ runs = <<>>
  /\ NoCurrency /\ NoSummary /\ NoConfig /\ NoSurfaces

NextNotify == fetchOrderJson \/ mainPeriod3 \/ mainPeriod2 \/ sendMail \/ mainCatch

SpecNotify == InitNotify /\ [][NextNotify]_vars

\* main has passed its decision.
Decided == payload # None /\ pc \in {"sending", "rejected", "exited"}
Vin == Get(dataOf(payload), "vehicleVin")
\* The record has a VIN: a vehicleVin that is a non-empty string.
HasVin == IsString(Vin) /\ Vin.s # <<>>
\* The record has no VIN: vehicleVin absent, null or empty.
NoVin == Vin \in {Undefined, Null, EmptyString}
ReminderDecided == mail # None /\ mail.subject = ReminderSubject
\* The run counter is the decimal text of a positive integer.
PositiveInteger(runStr) ==
  /\ IsString(runStr) /\ runStr.s # <<>>
  /\ \A i \in 1..Len(runStr.s) : runStr.s[i] \in DigitChars
  /\ DigitsValue(runStr.s) > 0

\* C1: in both notifier scripts, whenever the fetched record has a VIN, sendEmail
\* is called with the subject "VIN生成通知：" followed by that VIN, whatever the
\* run counter and the hour; neither the hour nor the cadence is consulted.
C1_VinFirst ==
  (period \in {2, 3} /\ Decided /\ HasVin) =>
    /\ mail # None
    /\ mail.subject = VinSubjectPrefix \o Vin.s
    /\ clock = None

\* The period-3 script has met a VIN under "data" on a run whose counter, 4,
\* sends no reminder, and the VIN mail went out.
C1_Witness ==
  /\ period = 3
  /\ pc = "exited"
  /\ env.GITHUB_RUN_NUMBER = Str(<<"4">>)
  /\ payload = Obj([data |-> Obj([vehicleVin |-> Str(<<"L", "1">>)])])
  /\ mail # None
  /\ mail.state = "sent"
  /\ mail.subject = VinSubjectPrefix \o <<"L", "1">>

\* C2: in the period-3 script, with no VIN and a run counter that is a positive
\* integer, the reminder is sent if and only if the counter is a multiple of 3,
\* and the hour is not read.
C2_CounterCadence ==
  (period = 3 /\ Decided /\ NoVin /\ PositiveInteger(env.GITHUB_RUN_NUMBER)) =>
    /\ ReminderDecided <=> DigitsValue(env.GITHUB_RUN_NUMBER.s) % 3 = 0
    /\ mail # None => mail.subject = ReminderSubject
    /\ clock = None

\* The period-3 script has run with counter 30 and no VIN, and the reminder
\* went out.
C2_Witness ==
  /\ period = 3
  /\ pc = "exited"
  /\ env.GITHUB_RUN_NUMBER = Str(<<"3", "0">>)
  /\ NoVin
  /\ ReminderDecided
  /\ mail.state = "sent"

\* C3 as claimed: in the period-3 script, with no VIN and a run counter that is
\* absent or not a positive integer, the decision is taken from the
\* Asia/Shanghai hour: the hour is read, and the reminder is sent if and only if
\* the hour is a multiple of 3.
C3_HourFallback ==
  (period = 3 /\ Decided /\ NoVin /\ ~PositiveInteger(env.GITHUB_RUN_NUMBER)) =>
    /\ clock # None
    /\ ReminderDecided <=> clock.hour % 3 = 0

\* The run number counts as 0 when absent, empty or not numeric.
RunNumberOrZero ==
  LET r == env.GITHUB_RUN_NUMBER
  IN IF r = Undefined \/ r = EmptyString \/ IsNaN(ToNumber(r)) THEN IntNum(0) ELSE ToNumber(r)
IsEven(n) == IsFinite(n) /\ n.e = 0 /\ n.m % 2 = 0

\* C5: in the period-2 script, with no VIN, the reminder is sent exactly when the
\* run number is even, an absent, empty or non-numeric GITHUB_RUN_NUMBER
\* counting as 0; the hour is never read.
C5_EvenRuns ==
  /\ (period = 2 /\ Decided /\ NoVin) =>
       /\ ReminderDecided <=> IsEven(RunNumberOrZero)
       /\ mail # None => mail.subject = ReminderSubject
  /\ period = 2 => clock = None

\* The period-2 script has run without a counter and without a VIN, and the
\* reminder went out.
C5_Witness ==
  /\ period = 2
  /\ pc = "exited"
  /\ env.GITHUB_RUN_NUMBER = Undefined
  /\ NoVin
  /\ ReminderDecided
  /\ mail.state = "sent"

\* ORDER_URL is not set, the order interface answered with a status that is not
\* a success or with a body that is not JSON, or the transport's send threw.
UrlNotSet == pc # "start" /\ env.ORDER_URL = Undefined
BadStatus == response # None /\ ~response.ok
NotJson == response # None /\ response.ok /\ response.json = None
SendThrew == mail # None /\ mail.state = "failed"

\* C11: in a notifier run, ORDER_URL not set, a non-success HTTP status, a body
\* that is not JSON and the transport's send throwing each take the run to
\* main().catch, which logs the error and exits with status 1; the run never
\* ends with status 0.
C11_FatalErrorsExitNonZero ==
  (UrlNotSet \/ BadStatus \/ NotJson \/ SendThrew) =>
    /\ pc \in {"rejected", "exited"}
    /\ exitCode # ExitCode(0)
    /\ pc = "exited" => exitCode = ExitCode(1)

\* The transport's send threw on a VIN mail, and the run has exited with 1.
C11_Witness ==
  /\ pc = "exited"
  /\ SendThrew
  /\ mail.subject = VinSubjectPrefix \o <<"L", "1">>
  /\ exitCode = ExitCode(1)

\* The SMTP configuration lacks the host, the port, the user, the password or
\* the sender address.
Missing(v) == v \in {Undefined, EmptyString}
SmtpIncomplete ==
  \/ Missing(env.SMTP_HOST) \/ Missing(env.SMTP_PORT) \/ Missing(env.SMTP_USER)
  \/ Missing(env.SMTP_PASS) \/ Missing(env.MAIL_FROM)

\* C12: when sendEmail is called and the SMTP configuration is incomplete, the
\* transport is never called, no error is raised and the run ends with status 0.
C12_IncompleteSmtpSkips ==
  (mail # None /\ SmtpIncomplete) =>
    /\ mail.state = "skipped"
    /\ calls.sendMail = 0
    /\ pc = "exited"
    /\ exitCode = ExitCode(0)

\* The period-3 script met a VIN with SMTP_PASS empty: the mail was skipped and
\* the run ended with status 0.
C12_Witness ==
  /\ period = 3
  /\ env.SMTP_PASS = EmptyString
  /\ mail # None
  /\ mail.subject = VinSubjectPrefix \o <<"L", "1">>
  /\ mail.state = "skipped"
  /\ exitCode = ExitCode(0)

\* C13: in every notifier run, on every path, fetch is called at most once and
\* transporter.sendMail at most once; sendMail is called only after a fetch
\* that succeeded; a run that has failed makes no further call.
C13_OneFetchOneSend ==
  /\ calls.fetch <= 1
  /\ calls.sendMail <= 1
  /\ calls.sendMail = 1 =>
       /\ calls.fetch = 1
       /\ response # None /\ response.ok /\ payload = response.json
  /\ (BadStatus \/ NotJson) => calls.sendMail = 0 /\ mail = None
  /\ SendThrew => calls = [fetch |-> 1, sendMail |-> 1]

\* A run whose one fetch succeeded and whose one send failed has exited.
C13_Witness ==
  /\ pc = "exited"
  /\ calls = [fetch |-> 1, sendMail |-> 1]
  /\ SendThrew
  /\ exitCode = ExitCode(1)

(***************************************************************************)
(* SpecSchedule: the workflow starts the period-3 script again and again,  *)
(* the runner raising GITHUB_RUN_NUMBER by one each time; nothing else     *)
(* passes from one run to the next.                                        *)
(***************************************************************************)
FirstRuns == {1, 8, 98}

InitSchedule ==
  /\ period = 3
  /\ env \in {EnvOf(Str(IntToChars(n)), Str(<<"u">>), smtp) :
                n \in FirstRuns, smtp \in {SmtpComplete, [SmtpComplete EXCEPT !.SMTP_HOST = Undefined]}}
  /\ InitRun
  /\ runs = <<>>
  /\ NoCurrency /\ NoSummary /\ NoConfig /\ NoSurfaces

\* The answers of the order interface over the scheduled runs: a failure, an
\* order with its VIN, and orders without one.
ScheduledResponses ==
  {[ok |-> FALSE, json |-> None]}
    \cup {[ok |-> TRUE, json |-> v] :
            v \in {Obj([data |-> Obj([vehicleVin |-> Str(<<"L", "1">>)])]),
                   Obj([data |-> Obj([vehicleVin |-> Null])]),
                   Obj([orderNo |-> Str(<<"A">>)])}}

fetchOrderJsonScheduled == Fetched(ScheduledResponses)

\* The run has ended; the workflow's next run starts.
schedule ==
  /\ pc = "exited"
  /\ Len(runs) < MaxRuns
  /\ runs' = Append(runs, [run |-> env.GITHUB_RUN_NUMBER,
                           decided |-> Decided,
                           noVin |-> Decided /\ NoVin,
                           reminder |-> ReminderDecided])
  /\ env' = [env EXCEPT !.GITHUB_RUN_NUMBER = Str(IntToChars(DigitsValue(@.s) + 1))]
  /\ pc' = "start"
  /\ response' = None /\ payload' = None /\ calls' = NoCalls
  /\ clock' = None /\ mail' = None /\ exitCode' = None
  /\ UNCHANGED <<period, currencyVars, summaryVars, configVars, surfaceVars>>

NextSchedule == fetchOrderJsonScheduled \/ mainPeriod3 \/ sendMail \/ mainCatch \/ schedule

SpecSchedule == InitSchedule /\ [][NextSchedule]_vars

Reminders(i) == {j \in i..(i + 2) : runs[j].reminder}

\* C4: in the period-3 script, over consecutive runs whose counter rises by one
\* and in which the order has no VIN, every window of 3 consecutive runs holds
\* exactly one run that sends the reminder.
C4_OneReminderPerThreeRuns ==
  \A i \in 1..(Len(runs) - 2) :
    (\A j \in i..(i + 2) : runs[j].noVin) => Cardinality(Reminders(i)) = 1

\* Five runs without a VIN, counters 8 to 12, have ended: the reminder went out
\* on runs 9 and 12 alone.
C4_Witness ==
  /\ Len(runs) = 5
  /\ \A j \in 1..5 : runs[j].noVin
  /\ runs[1].run = Str(<<"8">>)
  /\ runs[5].run = Str(<<"1", "2">>)
  /\ {j \in 1..5 : runs[j].reminder} = {2, 5}

(***************************************************************************)
(* SpecSurfaces: the two web surfaces over the same body of the order      *)
(* interface: GET /api/order/summary (route.ts) and the page (Home,        *)
(* page.tsx), each fetching with fetchOrderInfo.                           *)
(***************************************************************************)
\* The values a key holds in these records: those of SpecSummary, amounts with
\* a fraction and a thousands group under the two prices, and 0 as the VIN.
SurfaceValues(k) ==
  FieldValues(k)
    \cup (IF k \in {"retailPrice", "price"}
          THEN {Finite(FALSE, 12345, 1), Finite(FALSE, 725, 2)} ELSE {})
    \cup (IF k = "vehicleVin" THEN {IntNum(0)} ELSE {})
    \cup (IF k = "skuDetail"
          THEN {Str(JsonStringify(Obj([materialConfig |->
                                         Obj([fullName |-> Str(<<"A">>)])])))}
          ELSE {})

\* The records over the keys one summary field is read from, any of them absent.
RecordsOver(keys) ==
  UNION {{Obj(o) : o \in {f \in [ks -> UNION {SurfaceValues(k) : k \in ks}] :
                            \A k \in ks : f[k] \in SurfaceValues(k)}} :
           ks \in SUBSET keys}

KeyGroups == {SourceKeys(f) : f \in RecordFields} \cup {{"skuDetail"}}
SurfaceRecords == UNION {RecordsOver(g) : g \in KeyGroups}

\* The body: the record under "data", the record itself, and bodies without one.
OrderBodies ==
  {Obj([data |-> r]) : r \in SurfaceRecords}
    \cup SurfaceRecords
    \cup {Null, Obj([data |-> Null])}

InitSurfaces ==
  /\ order \in OrderBodies
  /\ api = None /\ page = None
  /\ NoCurrency /\ NoSummary /\ NoConfig /\ NoNotifier

\* A plausible slip: a VIN counted as present unless it is null or undefined.
hasVinUnlessNullish(data) == Bool(Get(data, "vehicleVin") \notin {Undefined, Null})

\* route.ts:75  !!data?.vehicleVin
hasVinOf(data) == Bool(Truthy(Get(data, "vehicleVin")))

\* GET: fetchOrderInfo throws and the handler answers 500, or the summary of the
\* body's data (of the body itself without one) is answered.
GET ==
  /\ api = None
  /\ \/ api' = [status |-> 500, error |-> "message"]
     \/ LET data == Coalesce(Get(order, "data"), order)
        IN \E sm \in {buildOrderSummary(data)} :
             api' = [status |-> 200, hasVin |-> hasVinOf(data), summary |-> sm]
  /\ UNCHANGED <<order, page, currencyVars, summaryVars, configVars, notifierVars>>

\* Home: fetchOrderInfo throws and the error is shown, or the list of the
\* body's data is shown; without data the page says there is none.
Home ==
  /\ page = None
  /\ \/ page' = [error |-> TRUE, list |-> None]
     \/ LET data == Coalesce(Get(order, "data"), Null)
        IN \E l \in {IF Truthy(data) THEN buildOrderSummaryPage(data) ELSE None} :
             page' = [error |-> FALSE, list |-> l]
  /\ UNCHANGED <<order, api, currencyVars, summaryVars, configVars, notifierVars>>

NextSurfaces == GET \/ Home

SpecSurfaces == InitSurfaces /\ [][NextSurfaces]_vars

\* Both surfaces have shown the record under "data".
Rec == Get(order, "data")
BothBuilt ==
  /\ api # None /\ api.status = 200
  /\ page # None /\ page.list # None
Field(k) == Get(Rec, k)
\* A value that is there: a non-empty string or a number other than 0.
Filled(v) == (IsString(v) /\ v.s # <<>>) \/ (IsFinite(v) /\ v.m # 0)
AllEmpty(f) == \A k \in SourceKeys(f) : IsEmpty(Field(k))
Same(f) == page.list[f] = api.summary[f]
\* The fields read from one key on the page and from that key and an alternate
\* in the normalizer; the key has the field's name.
SimpleFields ==
  {"orderNo", "businessOrderNo", "orderDate", "payDate", "buyerName", "buyerTel",
   "buyerIdNo", "vehicleModel", "vehicleVersion"}

ApiRecord == Coalesce(Get(order, "data"), order)
ApiVin == Get(ApiRecord, "vehicleVin")
Answered == api # None /\ api.status = 200

\* C15 as claimed: in every successful response hasVin is false exactly when
\* summary.vehicleVin is "--", and true exactly when summary.vehicleVin is the
\* record's VIN.
C15_HasVinMatchesSummary ==
  Answered =>
    /\ api.hasVin = Bool(FALSE) <=> api.summary.vehicleVin = Placeholder
    /\ api.hasVin = Bool(TRUE) <=> api.summary.vehicleVin = ApiVin

\* C15, amended: hasVin is true exactly when the record's vehicleVin is filled,
\* and summary.vehicleVin is then that VIN; summary.vehicleVin is "--" when
\* vehicleVin is null or absent, and hasVin is then false; for an empty string
\* or 0 hasVin is false and summary.vehicleVin is that value, not "--".
C15_HasVin ==
  Answered =>
    /\ api.hasVin = Bool(Filled(ApiVin))
    /\ Filled(ApiVin) => api.summary.vehicleVin = ApiVin
    /\ IsNullish(ApiVin) => api.summary.vehicleVin = Placeholder
    /\ ~IsNullish(ApiVin) => api.summary.vehicleVin = ApiVin

\* A record whose vehicleVin is the empty string has been answered: hasVin is
\* false and summary.vehicleVin is the empty string.
C15_Witness ==
  /\ Answered
  /\ ApiVin = EmptyString
  /\ api.hasVin = Bool(FALSE)
  /\ api.summary.vehicleVin = EmptyString

====
